---- MODULE Spec2Model ----
(***************************************************************************)
(* Model of flareplot_from_fingerprint.py: the pipeline                     *)
(*   load -> threshold filter -> convert_prolif_df_to_enhanced_json         *)
(* of generate_flareplot_from_fingerprint.                                  *)
(*                                                                          *)
(* Python strings are sequences of one-character strings, so that the       *)
(* regular expression of convert_aa_code and str.split are computed         *)
(* character by character.  Floats that are quotients of two counts are     *)
(* exact fractions <<numerator, denominator>> (denominator > 0); the        *)
(* float NaN that pandas' mean gives for a table without rows is the        *)
(* value NaN, which compares false with everything.                         *)
(***************************************************************************)
EXTENDS Integers, Sequences, FiniteSets, TLC

(***************************************************************************)
(* Bounds of the model.                                                     *)
(***************************************************************************)
MaxCols == 2
MaxFrames == 2

(***************************************************************************)
(* Characters.                                                              *)
(***************************************************************************)
Upper ==
    {"A","B","C","D","E","F","G","H","I","J","K","L","M",
     "N","O","P","Q","R","S","T","U","V","W","X","Y","Z"}

Digit == {"0","1","2","3","4","5","6","7","8","9"}

UpperDigit == Upper \cup Digit

Alphabet ==
    <<"0","1","2","3","4","5","6","7","8","9",
      "A","B","C","D","E","F","G","H","I","J","K","L","M",
      "N","O","P","Q","R","S","T","U","V","W","X","Y","Z",
      "a","b","c","d","e","f","g","h","i","j","k","l","m",
      "n","o","p","q","r","s","t","u","v","w","x","y","z",
      ".","#">>

AlphabetIndex ==
    [c \in { Alphabet[i] : i \in 1..Len(Alphabet) } |->
        CHOOSE i \in 1..Len(Alphabet) : Alphabet[i] = c]

\* a code for each character, standing for ord(c)
Ord(c) == AlphabetIndex[c]

(***************************************************************************)
(* Fractions and NaN.                                                       *)
(***************************************************************************)
NaN == <<0, 0>>

Frac(n, d) == <<n, d>>

IsNaN(x) == x[2] = 0

\* x >= y on floats: false as soon as one side is NaN
GE(x, y) == ~IsNaN(x) /\ ~IsNaN(y) /\ x[1] * y[2] >= y[1] * x[2]

GT(x, y) == ~IsNaN(x) /\ ~IsNaN(y) /\ x[1] * y[2] > y[1] * x[2]

FEq(x, y) == ~IsNaN(x) /\ ~IsNaN(y) /\ x[1] * y[2] = y[1] * x[2]

(***************************************************************************)
(* interaction_colors, lines 55-71, and aa_code_map, lines 74-79.           *)
(***************************************************************************)
Hydrophobic == <<"H","y","d","r","o","p","h","o","b","i","c">>
HBDonor == <<"H","B","D","o","n","o","r">>
HBAcceptor == <<"H","B","A","c","c","e","p","t","o","r">>
PiStacking == <<"P","i","S","t","a","c","k","i","n","g">>
Anionic == <<"A","n","i","o","n","i","c">>
Cationic == <<"C","a","t","i","o","n","i","c">>
CationPi == <<"C","a","t","i","o","n","P","i">>
PiCation == <<"P","i","C","a","t","i","o","n">>
VdWContact == <<"V","d","W","C","o","n","t","a","c","t">>
EdgeToFace == <<"E","d","g","e","T","o","F","a","c","e">>
FaceToFace == <<"F","a","c","e","T","o","F","a","c","e">>
MetalAcceptor == <<"M","e","t","a","l","A","c","c","e","p","t","o","r">>
MetalDonor == <<"M","e","t","a","l","D","o","n","o","r">>
XBAcceptor == <<"X","B","A","c","c","e","p","t","o","r">>
XBDonor == <<"X","B","D","o","n","o","r">>

interaction_colors ==
    { <<Hydrophobic,   <<"#","9","0","5","0","0","0">> >>,
      <<HBDonor,       <<"#","0","0","0","0","F","F">> >>,
      <<HBAcceptor,    <<"#","F","F","0","0","0","0">> >>,
      <<PiStacking,    <<"#","0","0","F","F","0","0">> >>,
      <<Anionic,       <<"#","A","0","0","0","0","0">> >>,
      <<Cationic,      <<"#","0","0","0","0","A","0">> >>,
      <<CationPi,      <<"#","0","0","A","0","0","0">> >>,
      <<PiCation,      <<"#","0","0","A","0","0","0">> >>,
      <<VdWContact,    <<"#","5","0","5","0","5","0">> >>,
      <<EdgeToFace,    <<"#","0","0","F","F","0","0">> >>,
      <<FaceToFace,    <<"#","0","0","F","F","0","0">> >>,
      <<MetalAcceptor, <<"#","8","0","8","0","F","F">> >>,
      <<MetalDonor,    <<"#","8","0","8","0","F","F">> >>,
      <<XBAcceptor,    <<"#","F","F","8","0","8","0">> >>,
      <<XBDonor,       <<"#","F","F","8","0","8","0">> >> }

aa_code_map ==
    { <<<<"A","L","A">>, "A">>, <<<<"A","R","G">>, "R">>, <<<<"A","S","N">>, "N">>,
      <<<<"A","S","P">>, "D">>, <<<<"C","Y","S">>, "C">>, <<<<"G","L","U">>, "E">>,
      <<<<"G","L","N">>, "Q">>, <<<<"G","L","Y">>, "G">>, <<<<"H","I","S">>, "H">>,
      <<<<"I","L","E">>, "I">>, <<<<"L","E","U">>, "L">>, <<<<"L","Y","S">>, "K">>,
      <<<<"M","E","T">>, "M">>, <<<<"P","H","E">>, "F">>, <<<<"P","R","O">>, "P">>,
      <<<<"S","E","R">>, "S">>, <<<<"T","H","R">>, "T">>, <<<<"T","R","P">>, "W">>,
      <<<<"T","Y","R">>, "Y">>, <<<<"V","A","L">>, "V">> }

\* dict.get(key, default) on a dict given as a set of <<key, value>> pairs
DictGet(dict, key, default) ==
    IF \E p \in dict : p[1] = key
    THEN (CHOOSE p \in dict : p[1] = key)[2]
    ELSE default

(***************************************************************************)
(* hash(): CPython salts str hashes with a per-process seed, so the value   *)
(* is a function of the string and of a seed fixed when the process starts. *)
(***************************************************************************)
\* the hash of the first n characters of s
RECURSIVE HashUpTo(_, _, _)
HashUpTo(seed, s, n) ==
    IF n = 0 THEN seed
    ELSE (HashUpTo(seed, s, n - 1) * 31 + Ord(s[n])) % 67108859

PyHash(seed, s) == HashUpTo(seed, s, Len(s))

HexDigits == <<"0","1","2","3","4","5","6","7","8","9","a","b","c","d","e","f">>

\* "{:02x}".format(n), 0 <= n < 256
Hex2(n) == <<HexDigits[(n \div 16) + 1], HexDigits[(n % 16) + 1]>>

\* "#{:06x}".format(n), 0 <= n < 16^6
Hex6(n) ==
    <<"#">> \o Hex2(n \div 65536) \o Hex2((n \div 256) % 256) \o Hex2(n % 256)

(***************************************************************************)
(* get_chain_color, lines 42-52.  hue = k/100 with k = hash % 100; with     *)
(* saturation 0.7 and value 0.9, colorsys.hsv_to_rgb gives i = int(6k/100), *)
(* f = (6k - 100 i)/100, p = 0.27, q = 0.9 - 0.63 f, t = 0.27 + 0.63 f.     *)
(* int(x * 255) is computed in integers (no product is close to an integer  *)
(* boundary, so float rounding does not change the truncation).            *)
(***************************************************************************)
get_chain_color(seed, chain_id) ==
    LET k == PyHash(seed, chain_id) % 100
        i == (6 * k) \div 100
        m == 6 * k - 100 * i
        v == 229
        p == 68
        q == (2295000 - 16065 * m) \div 10000
        t == (688500 + 16065 * m) \div 10000
        rgb == CASE i = 0 -> <<v, t, p>>
                 [] i = 1 -> <<q, v, p>>
                 [] i = 2 -> <<p, v, t>>
                 [] i = 3 -> <<p, q, v>>
                 [] i = 4 -> <<t, p, v>>
                 [] OTHER -> <<v, p, q>>
    IN  <<"#">> \o Hex2(rgb[1]) \o Hex2(rgb[2]) \o Hex2(rgb[3])

(***************************************************************************)
(* re.match(r'([A-Z]{3})(\d+)\.([A-Z0-9]+)', s), line 114.  re.match        *)
(* anchors the pattern at the start of the string only.  Both + are greedy: *)
(* the digits are the longest run (a shorter one is followed by a digit,    *)
(* never by the period), and so is the chain token, which ends the pattern. *)
(***************************************************************************)
\* last index of the longest run of characters of Class starting at from
\* (from - 1 when the run is empty)
RunEnd(s, from, Class) ==
    CHOOSE j \in (from - 1)..Len(s) :
        /\ \A i \in from..j : s[i] \in Class
        /\ (j = Len(s) \/ s[j + 1] \notin Class)

re_match(s) ==
    LET dEnd == RunEnd(s, 4, Digit)
        cEnd == RunEnd(s, dEnd + 2, UpperDigit)
        ok   == /\ Len(s) >= 3
                /\ \A i \in 1..3 : s[i] \in Upper
                /\ dEnd >= 4
                /\ dEnd + 1 <= Len(s)
                /\ s[dEnd + 1] = "."
                /\ cEnd >= dEnd + 2
    IN  IF ok
        THEN [matched |-> TRUE,
              group1 |-> SubSeq(s, 1, 3),
              group2 |-> SubSeq(s, 4, dEnd),
              group3 |-> SubSeq(s, dEnd + 2, cEnd),
              end |-> cEnd]
        ELSE [matched |-> FALSE, group1 |-> <<>>, group2 |-> <<>>,
              group3 |-> <<>>, end |-> 0]

\* the rewrite without the swap of chain and residue
convert_aa_code_unswapped(residue_string) ==
    LET match == re_match(residue_string)
    IN  IF match.matched
        THEN LET one_letter ==
                     IF \E p \in aa_code_map : p[1] = match.group1
                     THEN <<DictGet(aa_code_map, match.group1, "")>>
                     ELSE match.group1
             IN  one_letter \o match.group2 \o <<".">> \o match.group3
        ELSE residue_string

\* convert_aa_code, lines 112-122
convert_aa_code(residue_string) ==
    LET match == re_match(residue_string)
    IN  IF match.matched
        THEN LET three_letter == match.group1
                 number == match.group2
                 chain == match.group3
                 one_letter ==
                     IF \E p \in aa_code_map : p[1] = three_letter
                     THEN <<DictGet(aa_code_map, three_letter, "")>>
                     ELSE three_letter
             IN  chain \o <<".">> \o one_letter \o number
        ELSE residue_string

\* str.split('.'): the pieces between the periods, at least one piece
RECURSIVE Split(_)
Split(s) ==
    IF \E i \in 1..Len(s) : s[i] = "."
    THEN LET d == CHOOSE i \in 1..Len(s) :
                      s[i] = "." /\ \A j \in 1..(i - 1) : s[j] # "."
         IN  <<SubSeq(s, 1, d - 1)>> \o Split(SubSeq(s, d + 1, Len(s)))
    ELSE <<s>>

\* s.split('.')[1] raises IndexError when s holds no period
SplitHasSecond(s) == Len(Split(s)) >= 2

(***************************************************************************)
(* The inputs.  A column of the interaction table is a triple               *)
(* <<ligand, protein, interaction>>; the table holds distinct columns.      *)
(***************************************************************************)
LIG101_A == <<"L","I","G","1","0","1",".","A">>
ALA50_B == <<"A","L","A","5","0",".","B">>
LYS123_A == <<"L","Y","S","1","2","3",".","A">>
XYZ45_B == <<"X","Y","Z","4","5",".","B">>
LYS123_Ab == <<"L","Y","S","1","2","3",".","A","b">>
garbage == <<"g","a","r","b","a","g","e">>
SaltBridge == <<"S","a","l","t","B","r","i","d","g","e">>

ColumnPool ==
    { <<LIG101_A, ALA50_B, HBDonor>>,
      <<LIG101_A, XYZ45_B, SaltBridge>>,
      <<LIG101_A, LYS123_Ab, SaltBridge>>,
      <<garbage, LYS123_A, Hydrophobic>> }

\* the threshold argument, line 9 (default 0.5)
Thresholds == { Frac(0, 1), Frac(1, 2), Frac(1, 1) }

HashSeeds == {0, 1}

\* the tables of k distinct columns of the pool and n frames
Tables(k, n) ==
    { [columns |-> cols, cells |-> cells, nrows |-> n] :
        cols \in { c \in [1..k -> ColumnPool] :
                     \A i, j \in 1..k : c[i] = c[j] => i = j },
        cells \in [1..k -> [1..n -> BOOLEAN]] }

EmptyOutput == [columns |-> <<>>, cells |-> <<>>, nrows |-> 0]

(***************************************************************************)
(* State.                                                                   *)
(***************************************************************************)
VARIABLES
    df,               \* the table path_to_df returns, line 34
    threshold,        \* the threshold argument
    hashseed,         \* the process's str hash seed
    pc,               \* "filter", "convert", "done" or "raised"
    df_threshold,     \* line 39
    col_idx,          \* columns of df_threshold the loop of line 129 has taken
    name1, name2,     \* lines 135-136, of the column taken last
    chain_colors,     \* line 126, a set of <<chain, color>>
    unique_nodes,     \* line 125
    edges,            \* output["edges"]
    trackProperties,  \* output["tracks"][0]["trackProperties"]
    treeProperties,   \* output["trees"][0]["treeProperties"]
    edge_col          \* history: the column index each edge was built from

vars == <<df, threshold, hashseed, pc, df_threshold, col_idx, name1, name2,
          chain_colors, unique_nodes, edges, trackProperties, treeProperties,
          edge_col>>

Init ==
    /\ \E k \in 0..MaxCols, n \in 0..MaxFrames : df \in Tables(k, n)
    /\ threshold \in Thresholds
    /\ hashseed \in HashSeeds
    /\ pc = "filter"
    /\ df_threshold = EmptyOutput
    /\ col_idx = 0
    /\ name1 = <<>>
    /\ name2 = <<>>
    /\ chain_colors = {}
    /\ unique_nodes = {}
    /\ edges = <<>>
    /\ trackProperties = <<>>
    /\ treeProperties = <<>>
    /\ edge_col = <<>>

(***************************************************************************)
(* The threshold filter, lines 36-39.                                       *)
(***************************************************************************)
\* number of frames in which the cell of column c is truthy
TrueCount(t, c) == Cardinality({ f \in 1..t.nrows : t.cells[c][f] })

\* a mean that is 0 instead of NaN for a table without rows
interaction_frequency_zero(t, c) ==
    IF t.nrows = 0 THEN Frac(0, 1) ELSE Frac(TrueCount(t, c), t.nrows)

\* df.mean(axis=0) of column c: NaN for a table without rows
interaction_frequency(t, c) ==
    IF t.nrows = 0 THEN NaN ELSE Frac(TrueCount(t, c), t.nrows)

\* the filter with == for >=
Passes_eq(t, th, c) == FEq(interaction_frequency(t, c), th)

\* the filter with > for >=
Passes_gt(t, th, c) == GT(interaction_frequency(t, c), th)

\* the mask interaction_frequency >= threshold, line 38
Passes(t, th, c) == GE(interaction_frequency(t, c), th)

\* interaction_frequency[...].index, as the increasing sequence of the
\* positions of the columns kept
RECURSIVE KeptUpTo(_, _, _)
KeptUpTo(t, th, k) ==
    IF k = 0 THEN <<>>
    ELSE IF Passes(t, th, k)
         THEN Append(KeptUpTo(t, th, k - 1), k)
         ELSE KeptUpTo(t, th, k - 1)

filtered_columns(t, th) == KeptUpTo(t, th, Len(t.columns))

\* df[filtered_columns]
Select(t, idx) ==
    [columns |-> [i \in 1..Len(idx) |-> t.columns[idx[i]]],
     cells |-> [i \in 1..Len(idx) |-> t.cells[idx[i]]],
     nrows |-> t.nrows]

Filter ==
    /\ pc = "filter"
    /\ df_threshold' = Select(df, filtered_columns(df, threshold))
    /\ pc' = "convert"
    /\ UNCHANGED <<df, threshold, hashseed, col_idx, name1, name2, chain_colors,
                   unique_nodes, edges, trackProperties, treeProperties, edge_col>>

(***************************************************************************)
(* convert_prolif_df_to_enhanced_json, lines 82-190: one iteration of the   *)
(* loop of line 129 per step.                                               *)
(***************************************************************************)
total_frames == df_threshold.nrows

\* lines 153-156
frame_count(c) == TrueCount(df_threshold, c)

\* the count divided by the number of columns instead of the number of frames
weight_by_columns(c) ==
    IF total_frames > 0
    THEN Frac(frame_count(c), Len(df_threshold.columns))
    ELSE Frac(0, 1)

\* line 159
weight(c) ==
    IF total_frames > 0 THEN Frac(frame_count(c), total_frames) ELSE Frac(0, 1)

\* float(weight)*2
Twice(x) == Frac(2 * x[1], x[2])

\* lines 143-146: a chain gets its colour when it is first met
WithChain(colors, chain) ==
    IF \E p \in colors : p[1] = chain
    THEN colors
    ELSE colors \cup { <<chain, get_chain_color(hashseed, chain)>> }

\* a fallback colour that also depends on how many edges were emitted before
edge_color_by_position(seed, interaction_type) ==
    DictGet(interaction_colors, interaction_type,
            Hex6((PyHash(seed, interaction_type) + Len(edges)) % 16777215))

\* interaction_colors.get(interaction_type,
\*     "#{:06x}".format(hash(interaction_type) % 0xffffff)), line 164
edge_color(seed, interaction_type) ==
    DictGet(interaction_colors, interaction_type,
            Hex6(PyHash(seed, interaction_type) % 16777215))

\* the subscripts name1.split('.')[1] and name2.split('.')[1] of lines 168-169
\* raise IndexError before anything is appended
Raises(n1, n2) == ~SplitHasSecond(n1) \/ ~SplitHasSecond(n2)

ProcessColumn ==
    /\ pc = "convert"
    /\ col_idx < Len(df_threshold.columns)
    /\ LET c == col_idx + 1
           ligand == df_threshold.columns[c][1]
           protein == df_threshold.columns[c][2]
           interaction_type == df_threshold.columns[c][3]
       IN  \E n1 \in {convert_aa_code(ligand)}, n2 \in {convert_aa_code(protein)} :
           \E parts1 \in {Split(n1)}, parts2 \in {Split(n2)} :
           \E colors \in {WithChain(WithChain(chain_colors, parts1[1]), parts2[1])} :
           \E w \in {weight(c)} :
             /\ name1' = n1
             /\ name2' = n2
             /\ chain_colors' = colors
             /\ unique_nodes' = unique_nodes \cup {n1, n2}
             /\ IF frame_count(c) > 0
                THEN IF Raises(n1, n2)
                     THEN /\ pc' = "raised"
                          /\ UNCHANGED <<col_idx, edges, trackProperties,
                                         treeProperties, edge_col>>
                     ELSE /\ edges' = Append(edges,
                                  [name1 |-> parts1[2],
                                   name2 |-> parts2[2],
                                   width |-> w,
                                   frames |-> <<0>>,
                                   color |-> edge_color(hashseed, interaction_type)])
                          /\ trackProperties' = trackProperties \o
                                  << [nodeName |-> parts1[2],
                                      color |-> DictGet(colors, parts1[1], <<>>),
                                      size |-> Twice(w)],
                                     [nodeName |-> parts2[2],
                                      color |-> DictGet(colors, parts2[1], <<>>),
                                      size |-> Twice(w)] >>
                          /\ treeProperties' = treeProperties \o
                                  << [path |-> n1], [path |-> n2] >>
                          /\ edge_col' = Append(edge_col, c)
                          /\ col_idx' = c
                          /\ pc' = pc
                ELSE /\ col_idx' = c
                     /\ UNCHANGED <<pc, edges, trackProperties, treeProperties,
                                    edge_col>>
    /\ UNCHANGED <<df, threshold, hashseed, df_threshold>>

\* line 190: the loop is over, the document is returned
Return ==
    /\ pc = "convert"
    /\ col_idx = Len(df_threshold.columns)
    /\ pc' = "done"
    /\ UNCHANGED <<df, threshold, hashseed, df_threshold, col_idx, name1, name2,
                   chain_colors, unique_nodes, edges, trackProperties,
                   treeProperties, edge_col>>

Next == Filter \/ ProcessColumn \/ Return

Spec == Init /\ [][Next]_vars

(***************************************************************************)
(* What the claims speak of.                                                *)
(***************************************************************************)
\* the thresholds the filter is compared at, in increasing order, some of
\* them outside [0,1]
ThresholdGrid ==
    << Frac(0 - 1, 2), Frac(0, 1), Frac(1, 3), Frac(1, 2), Frac(2, 3),
       Frac(1, 1), Frac(3, 2) >>

LE(x, y) == GE(y, x)

\* the columns of table t, as a set
ColumnSet(t) == { t.columns[i] : i \in 1..Len(t.columns) }

\* the columns of df the filter keeps at threshold th, as a set
Retained(th) ==
    UNION { { df.columns[idx[i]] : i \in 1..Len(idx) } :
            idx \in { filtered_columns(df, th) } }

\* the positions in df of the columns the filter keeps at threshold th
RetainedAt(th) ==
    UNION { { idx[i] : i \in 1..Len(idx) } : idx \in { filtered_columns(df, th) } }

Filtered == pc # "filter"

\* the filter step has just been taken
JustFiltered == pc = "convert" /\ col_idx = 0

\* the loop has ended, by the return or by an exception
Finished == pc \in {"done", "raised"}

\* the number of columns of df_threshold the loop has taken, the one that
\* raised included
Taken == IF pc = "raised" THEN col_idx + 1 ELSE col_idx

\* the whole identifier has the shape of the pattern
FullMatch(s) == re_match(s).matched /\ re_match(s).end = Len(s)

\* the normalizer as the specification words it
SpecNormalize(s) ==
    IF FullMatch(s)
    THEN LET m == re_match(s)
             code == IF \E p \in aa_code_map : p[1] = m.group1
                     THEN <<DictGet(aa_code_map, m.group1, "")>>
                     ELSE m.group1
         IN  m.group3 \o <<".">> \o code \o m.group2
    ELSE s

InPalette(t) == \E p \in interaction_colors : p[1] = t

\* the number of frames in which column c of df_threshold is true
Positive(c) == Cardinality({ f \in 1..df_threshold.nrows : df_threshold.cells[c][f] })

(* C1: the filter is monotone: for thresholds t1 <= t2 the columns kept at  *)
(* t2 are among the columns kept at t1.  Before the filter step: the        *)
(* columns kept along the increasing grid of thresholds form a decreasing   *)
(* chain (so every pair of the grid is ordered), on the table at hand.      *)
(* Right after the step (the table, the threshold and the filtered table do *)
(* not change later): the table the step produced against every threshold   *)
(* of the grid.                                                             *)
C1_FilterMonotone ==
    /\ pc = "filter" =>
          \A i \in 1..(Len(ThresholdGrid) - 1) :
             /\ LE(ThresholdGrid[i], ThresholdGrid[i + 1])
             /\ RetainedAt(ThresholdGrid[i + 1]) \subseteq RetainedAt(ThresholdGrid[i])
    /\ JustFiltered =>
          \A i \in 1..Len(ThresholdGrid) :
             /\ LE(ThresholdGrid[i], threshold) =>
                   ColumnSet(df_threshold) \subseteq Retained(ThresholdGrid[i])
             /\ LE(threshold, ThresholdGrid[i]) =>
                   Retained(ThresholdGrid[i]) \subseteq ColumnSet(df_threshold)

C1_Witness ==
    /\ JustFiltered
    /\ threshold = Frac(1, 2)
    /\ Len(df_threshold.columns) < Len(df.columns)
    /\ Len(df_threshold.columns) > Len(filtered_columns(df, Frac(1, 1)))

(* C2: with at least one frame and a threshold in [0,1], the filter keeps   *)
(* exactly the columns whose fraction of true frames is >= the threshold;   *)
(* threshold 0 keeps every column, threshold 1 the columns true in every    *)
(* frame.                                                                   *)
C2_FilterExact ==
    (Filtered /\ df.nrows >= 1) =>
        /\ ColumnSet(df_threshold) =
             { df.columns[i] : i \in
                 { j \in 1..Len(df.columns) :
                     Cardinality({ f \in 1..df.nrows : df.cells[j][f] }) * threshold[2]
                         >= threshold[1] * df.nrows } }
        /\ threshold = Frac(0, 1) => df_threshold.columns = df.columns
        /\ threshold = Frac(1, 1) =>
             ColumnSet(df_threshold) =
                { df.columns[i] : i \in
                    { j \in 1..Len(df.columns) :
                        \A f \in 1..df.nrows : df.cells[j][f] } }

C2_Witness ==
    /\ Filtered
    /\ df.nrows = 2
    /\ threshold = Frac(1, 2)
    /\ Len(df.columns) = 2
    /\ Len(df_threshold.columns) = 1
    /\ \E i \in 1..2 : Cardinality({ f \in 1..2 : df.cells[i][f] }) = 1
    /\ \E i \in 1..2 : Cardinality({ f \in 1..2 : df.cells[i][f] }) = 0

(* C3: every emitted edge comes from a column with a positive frame count,  *)
(* its width is count/total_frames, and the width lies in (0,1].            *)
C3_EdgeWeight ==
    \A e \in 1..Len(edges) :
        LET c == edge_col[e]
            width == edges[e].width
        IN  /\ Positive(c) > 0
            /\ width[2] > 0
            /\ width[1] * df_threshold.nrows = Positive(c) * width[2]
            /\ width[1] > 0
            /\ width[1] <= width[2]

C3_Witness ==
    \E e \in 1..Len(edges) :
        /\ edges[e].width = Frac(1, 2)
        /\ Positive(edge_col[e]) = 1

(* C4: the normalizer rewrites an identifier of the shape three uppercase   *)
(* letters, digits, period, chain token to chain.code+number, and returns   *)
(* every other identifier unchanged.                                        *)
C4_NormalizerAsSpecified ==
    Taken >= 1 =>
        /\ name1 = SpecNormalize(df_threshold.columns[Taken][1])
        /\ name2 = SpecNormalize(df_threshold.columns[Taken][2])

(* C5: after any prefix of the columns, the edges are as many as the        *)
(* columns taken that have a positive frame count, and the track and tree   *)
(* properties are twice as many.                                            *)
C5_OneEdgePerPositiveColumn ==
    /\ Len(edges) = Cardinality({ c \in 1..Taken : Positive(c) > 0 })
    /\ Len(trackProperties) = 2 * Len(edges)
    /\ Len(treeProperties) = 2 * Len(edges)

(* C6: a table without frames: no column passes the filter, nothing raises *)
(* (the division of line 159 is guarded), the conversion runs to its        *)
(* return, and edges, trackProperties and treeProperties are empty.         *)
C6_NoFrames ==
    df.nrows = 0 =>
        /\ pc # "raised"
        /\ Filtered => Len(df_threshold.columns) = 0
        /\ pc # "done" => ENABLED Next
        /\ edges = <<>>
        /\ trackProperties = <<>>
        /\ treeProperties = <<>>

C6_Witness ==
    /\ pc = "done"
    /\ df.nrows = 0
    /\ Len(df.columns) = 2
    /\ threshold = Frac(0, 1)

(* C7: an identifier that does not match the pattern, in a column the       *)
(* filter kept, does not make the conversion raise, and it reaches the      *)
(* document unnormalized.                                                   *)
C7_MalformedIsNonFatal ==
    /\ pc # "raised"
    /\ \A e \in 1..Len(edges) :
          LET col == df_threshold.columns[edge_col[e]]
          IN  /\ ~re_match(col[1]).matched => treeProperties[2 * e - 1].path = col[1]
              /\ ~re_match(col[2]).matched => treeProperties[2 * e].path = col[2]

C9_EdgeLabels ==
    \A e \in 1..Len(edges) :
        LET col == df_threshold.columns[edge_col[e]]
            m1 == re_match(col[1])
            m2 == re_match(col[2])
            code(m) == IF \E p \in aa_code_map : p[1] = m.group1
                       THEN <<DictGet(aa_code_map, m.group1, "")>>
                       ELSE m.group1
            t1 == trackProperties[2 * e - 1]
            t2 == trackProperties[2 * e]
        IN  (m1.matched /\ m2.matched) =>
              /\ edges[e].name1 = code(m1) \o m1.group2
              /\ edges[e].name2 = code(m2) \o m2.group2
              /\ t1.nodeName = edges[e].name1
              /\ t2.nodeName = edges[e].name2
              /\ treeProperties[2 * e - 1].path = m1.group3 \o <<".">> \o edges[e].name1
              /\ treeProperties[2 * e].path = m2.group3 \o <<".">> \o edges[e].name2
              /\ edges[e].frames = <<0>>
              /\ t1.size[2] = edges[e].width[2] /\ t1.size[1] = 2 * edges[e].width[1]
              /\ t2.size = t1.size
              /\ (col[1] = LIG101_A /\ col[2] = ALA50_B) =>
                    /\ edges[e].name1 = <<"L","I","G","1","0","1">>
                    /\ edges[e].name2 = <<"A","5","0">>
                    /\ treeProperties[2 * e - 1].path = <<"A",".","L","I","G","1","0","1">>
                    /\ treeProperties[2 * e].path = <<"B",".","A","5","0">>

C9_Witness ==
    \E e \in 1..Len(edges) :
        /\ df_threshold.columns[edge_col[e]] = <<LIG101_A, ALA50_B, HBDonor>>
        /\ edges[e].width = Frac(1, 2)

(* C10: filter and assembler agree: with at least one frame and a           *)
(* threshold in [0,1], when the conversion has ended every edge has width   *)
(* >= threshold and > 0, and a column of the table has an edge exactly when *)
(* the filter kept it and it is true in at least one frame.                 *)
C10_FilterAndAssemblerAgree ==
    (Finished /\ df.nrows >= 1) =>
        /\ \A e \in 1..Len(edges) :
              /\ GE(edges[e].width, threshold)
              /\ GT(edges[e].width, Frac(0, 1))
        /\ \A i \in 1..Len(df.columns) :
              (\E e \in 1..Len(edges) : df_threshold.columns[edge_col[e]] = df.columns[i])
                  <=> /\ df.columns[i] \in Retained(threshold)
                      /\ \E f \in 1..df.nrows : df.cells[i][f]

====
